---------------------------- MODULE Spec2Model ----------------------------
(***************************************************************************)
(* Model of the two command-line tools of serena-ssot-documentation:       *)
(*   scripts/validate_metadata.py  (the metadata validator)                *)
(*   scripts/generate_template.py  (the template generator)                *)
(*                                                                         *)
(* Text is modelled as a sequence of one-character strings wherever the    *)
(* code looks inside it (filenames, version values, timestamps), so that   *)
(* startswith / endswith / rstrip / strip / re.match are computed, not     *)
(* assumed.  Files are text files: failures of the operating system        *)
(* (permissions, undecodable bytes, missing directories) are not modelled. *)
(***************************************************************************)
EXTENDS Integers, Sequences, FiniteSets, TLC

VARIABLES
    \* ---- validate_metadata.py ----
    vpc,        \* position of the validator process
    vin,        \* the run's input: filename, file existence, content, parse result
    errors,     \* validate_metadata: errors
    warnings,   \* validate_metadata: warnings
    metadata,   \* validate_metadata: metadata (result of extract_frontmatter)
    category,   \* validate_metadata: category
    required,   \* validate_metadata: required
    report,     \* what print_results printed in this run
    vresult,    \* return value of validate_metadata: "none" | "true" | "false"
    vraised,    \* exception propagating out of validate_metadata, "none" if none
    vexit,      \* exit status of the validator process, -1 while running
    \* ---- generate_template.py ----
    gpc,        \* position of the generator process
    gin,        \* the run's input: argv and the clock
    params,     \* main: params (key -> value)
    content,    \* main: content (the rendered template)
    fs,         \* the filesystem: path -> file
    gout,       \* last message class printed by the generator
    graised,    \* exception propagating out of main, "none" if none
    gexit,      \* exit status of the generator process, -1 while running
    wrote       \* TRUE iff this run performed write_text

vvars == <<vpc, vin, errors, warnings, metadata, category, required, report,
           vresult, vraised, vexit>>
gvars == <<gpc, gin, params, content, fs, gout, graised, gexit, wrote>>
vars == <<vvars, gvars>>

(***************************************************************************)
(* Bounds of the model.                                                    *)
(***************************************************************************)
MaxVersionLen == 6     \* longest version string of the exhaustive sweep
MaxLines == 4          \* longest file content, in lines
MaxValueLen == 4       \* longest override value of the exhaustive sweep
MaxClock == 2          \* number of distinct clock readings

(***************************************************************************)
(* Text helpers.                                                           *)
(***************************************************************************)
SeqsUpTo(A, n) == UNION {[1..k -> A] : k \in 0..n}

startswith(s, p) == Len(s) >= Len(p) /\ SubSeq(s, 1, Len(p)) = p

endswith(s, p) == Len(s) >= Len(p) /\ SubSeq(s, Len(s) - Len(p) + 1, Len(s)) = p

RECURSIVE rstrip(_, _)
rstrip(s, chars) ==
    IF s # <<>> /\ s[Len(s)] \in chars
    THEN rstrip(SubSeq(s, 1, Len(s) - 1), chars)
    ELSE s

RECURSIVE lstrip(_, _)
lstrip(s, chars) ==
    IF s # <<>> /\ s[1] \in chars THEN lstrip(Tail(s), chars) ELSE s

Digits == {"0", "1", "2", "3", "4", "5", "6", "7", "8", "9"}

\* position just after the longest run of digits starting at i (regex \d+ / \d*)
RECURSIVE SkipDigits(_, _)
SkipDigits(s, i) ==
    IF i <= Len(s) /\ s[i] \in Digits THEN SkipDigits(s, i + 1) ELSE i

\* regex \d{n} at position i: the position after it, or 0 when it does not match
RECURSIVE ExactDigits(_, _, _)
ExactDigits(s, i, n) ==
    IF n = 0 THEN i
    ELSE IF i <= Len(s) /\ s[i] \in Digits THEN ExactDigits(s, i + 1, n - 1)
    ELSE 0

\* regex literal character c at position i: the position after it, or 0
Lit(s, i, c) == IF i > 0 /\ i <= Len(s) /\ s[i] = c THEN i + 1 ELSE 0

\* regex \d+ at position i: the position after it, or 0
DigitsPlus(s, i) ==
    IF i > 0 /\ SkipDigits(s, i) > i THEN SkipDigits(s, i) ELSE 0

\* Python's "$" without re.MULTILINE: the end of the string, or just before a
\* newline that is the last character of the string
DollarAt(s, i) ==
    i > 0 /\ (i = Len(s) + 1 \/ (i = Len(s) /\ s[i] = "\n"))

(***************************************************************************)
(* validate_metadata.py: tables                                            *)
(***************************************************************************)
c_ssot == <<"s", "s", "o", "t">>
c_pattern == <<"p", "a", "t", "t", "e", "r", "n">>
c_plan == <<"p", "l", "a", "n">>
c_reference == <<"r", "e", "f", "e", "r", "e", "n", "c", "e">>
c_archive == <<"a", "r", "c", "h", "i", "v", "e">>
c_troubleshoot == <<"t", "r", "o", "u", "b", "l", "e", "s", "h", "o", "o", "t">>
c_commit_log == <<"c", "o", "m", "m", "i", "t", "_", "l", "o", "g">>

\* Python's None as a category: no prefix, stripped, is empty
NoCategory == <<>>

REQUIRED_FIELDS ==
    (c_ssot :> <<"title", "version", "updated", "scope", "category", "subcategory", "domain">>)
    @@ (c_pattern :> <<"title", "version", "updated", "scope", "category", "domain">>)
    @@ (c_plan :> <<"title", "version", "updated", "scope", "category">>)
    @@ (c_reference :> <<"title", "scope", "category">>)
    @@ (c_archive :> <<"title", "version", "updated", "scope", "category", "archived_date">>)

CATEGORY_PREFIXES ==
    << c_ssot \o <<"_">>, c_pattern \o <<"_">>, c_plan \o <<"_">>,
       c_reference \o <<"_">>, c_archive \o <<"_">>, c_troubleshoot \o <<"_">>,
       c_commit_log >>


(***************************************************************************)
(* Python values found in a frontmatter mapping.  t is the type; n the     *)
(* number of an int, or the tenths of a one-decimal float; s the           *)
(* characters of a str.                                                    *)
(***************************************************************************)
Val(t, n, s) == [t |-> t, n |-> n, s |-> s]
PStr(s) == Val("str", 0, s)
PInt(n) == Val("int", n, <<>>)
PFloat(tenths) == Val("float", tenths, <<>>)
PNone == Val("none", 0, <<>>)
PList == Val("list", 1, <<>>)

DigitChar == <<"0", "1", "2", "3", "4", "5", "6", "7", "8", "9">>

\* str(n) of a non-negative int
RECURSIVE IntStr(_)
IntStr(n) ==
    IF n < 10 THEN <<DigitChar[n + 1]>>
    ELSE IntStr(n \div 10) \o <<DigitChar[(n % 10) + 1]>>

\* Python's str(value)
PyStr(v) ==
    CASE v.t = "str" -> v.s
      [] v.t = "int" -> IntStr(v.n)
      [] v.t = "float" -> IntStr(v.n \div 10) \o <<".">> \o IntStr(v.n % 10)
      [] v.t = "none" -> <<"N", "o", "n", "e">>
      [] v.t = "list" -> <<"[", "'", "x", "'", "]">>

\* Python's truth value of a value
Truthy(v) ==
    CASE v.t = "str" -> v.s # <<>>
      [] v.t = "int" -> v.n # 0
      [] v.t = "float" -> v.n # 0
      [] v.t = "none" -> FALSE
      [] v.t = "list" -> v.n # 0

(***************************************************************************)
(* The result of yaml.safe_load on the text between the --- markers.       *)
(*   kind "error": safe_load raises yaml.YAMLError                         *)
(*   kind "none" : None (empty document, null)                             *)
(*   kind "map"  : a dict, m                                               *)
(*   kind "str"  : a scalar string; names = the field names that occur in  *)
(*                 it as substrings                                        *)
(*   kind "list" : a list; names = the field names that are elements of it *)
(*   kind "int"  : a number or boolean (no "in", no subscript)             *)
(***************************************************************************)
EmptyMap == [k \in {} |-> PNone]
Doc(kind, m, names) == [kind |-> kind, m |-> m, names |-> names]
YamlErrorDoc == Doc("error", EmptyMap, {})
NoneDoc == Doc("none", EmptyMap, {})
IntDoc == Doc("int", EmptyMap, {})

\* Python's "field in metadata" (metadata a dict, str or list)
In(field, md) ==
    IF md.kind = "map" THEN field \in DOMAIN md.m ELSE field \in md.names

\* "field in metadata" raises TypeError: argument of type 'int' is not iterable
InRaises(md) == md.kind = "int"

\* metadata[field] raises TypeError when metadata is a str or a list
SubscriptRaises(md) == md.kind # "map"

(***************************************************************************)
(* validate_metadata.py: functions                                         *)
(***************************************************************************)
Err(kind, fields) == [kind |-> kind, fields |-> fields]

\* the first line of the file whose text is "---" and that closes the block
\* opened by line 1: re.match(r'^---\n(.*?)\n---\n', content, re.DOTALL);
\* 0 when the pattern does not match
BlockEnd(lines, nl) ==
    IF Len(lines) >= 3 /\ lines[1] = "---"
       /\ \E j \in 3..Len(lines) : lines[j] = "---" /\ (j < Len(lines) \/ nl)
    THEN CHOOSE j \in 3..Len(lines) :
            /\ lines[j] = "---" /\ (j < Len(lines) \/ nl)
            /\ \A i \in 3..(j - 1) : ~(lines[i] = "---" /\ (i < Len(lines) \/ nl))
    ELSE 0

\* extract_frontmatter without its except clause
extract_frontmatter_noexcept(in) ==
    IF BlockEnd(in.lines, in.nl) = 0 THEN NoneDoc ELSE in.yaml

extract_frontmatter(in) ==
    IF BlockEnd(in.lines, in.nl) = 0 THEN NoneDoc
    ELSE IF in.yaml.kind = "error" THEN NoneDoc
    ELSE in.yaml

any_prefix(filename) ==
    \E k \in 1..Len(CATEGORY_PREFIXES) : startswith(filename, CATEGORY_PREFIXES[k])

validate_naming(filename) ==
    (IF ~any_prefix(filename) THEN <<Err("naming_prefix", <<>>)>> ELSE <<>>)
    \o (IF ~endswith(filename, <<".", "m", "d">>)
        THEN <<Err("naming_ext", <<>>)>> ELSE <<>>)

\* re.match(r'^\d+\.\d+\.\d+$', s)
version_match(s) ==
    DollarAt(s, DigitsPlus(s, Lit(s, DigitsPlus(s, Lit(s, DigitsPlus(s, 1), ".")), ".")))

validate_version(version) ==
    IF ~Truthy(version) THEN FALSE ELSE version_match(PyStr(version))

\* re.match(r'^\d{4}-\d{2}-\d{2}', updated)
updated_match(s) ==
    LET a == ExactDigits(s, 1, 4)
        b == IF a = 0 THEN 0 ELSE Lit(s, a, "-")
        c == IF b = 0 THEN 0 ELSE ExactDigits(s, b, 2)
        d == IF c = 0 THEN 0 ELSE Lit(s, c, "-")
        e == IF d = 0 THEN 0 ELSE ExactDigits(s, d, 2)
    IN  e # 0

\* the loop of lines 91-95 without rstrip('_')
resolve_category_nostrip(filename) ==
    IF any_prefix(filename)
    THEN CATEGORY_PREFIXES[CHOOSE k \in 1..Len(CATEGORY_PREFIXES) :
                              startswith(filename, CATEGORY_PREFIXES[k])]
    ELSE NoCategory

\* the loop of lines 91-95: the first prefix the name starts with, stripped
resolve_category(filename) ==
    IF any_prefix(filename)
    THEN LET k == CHOOSE k \in 1..Len(CATEGORY_PREFIXES) :
                     /\ startswith(filename, CATEGORY_PREFIXES[k])
                     /\ \A j \in 1..(k - 1) : ~startswith(filename, CATEGORY_PREFIXES[j])
         IN  rstrip(CATEGORY_PREFIXES[k], {"_"})
    ELSE NoCategory

\* REQUIRED_FIELDS.get(category, REQUIRED_FIELDS["ssot"])
required_for(cat) ==
    IF cat \in DOMAIN REQUIRED_FIELDS THEN REQUIRED_FIELDS[cat] ELSE REQUIRED_FIELDS[c_ssot]

\* the comprehension of line 99, stopping at the first missing field
missing_fields_first(req, md) ==
    IF SelectSeq(req, LAMBDA f : ~In(f, md)) = <<>> THEN <<>>
    ELSE <<Head(SelectSeq(req, LAMBDA f : ~In(f, md)))>>

\* [field for field in required if field not in metadata]
missing_fields(req, md) == SelectSeq(req, LAMBDA f : ~In(f, md))

NoReport == [printed |-> FALSE, errors |-> <<>>, warnings |-> <<>>, valid |-> FALSE]

print_results(errs, warns) ==
    [printed |-> TRUE, errors |-> errs, warnings |-> warns,
     valid |-> (errs = <<>> /\ warns = <<>>)]

(***************************************************************************)
(* Inputs of the validator.                                                *)
(***************************************************************************)
MD == <<".", "m", "d">>

PrefixedNames == {CATEGORY_PREFIXES[k] \o <<"a">> \o MD : k \in 1..Len(CATEGORY_PREFIXES)}

n_notes == <<"n", "o", "t", "e", "s">>

\* names with a recognised prefix, and notes.md
MainNames == PrefixedNames \cup {n_notes \o MD}

\* names that break the naming rules in the other ways
OddNames ==
    { n_notes, c_ssot \o <<"_", "a", ".", "t", "x", "t">>, c_ssot \o MD,
      c_commit_log \o <<"s">> \o MD, c_plan \o <<"_">> }

PlainNames == {"title", "scope", "category", "subcategory", "archived_date", "changelog"}

v123 == <<"1", ".", "2", ".", "3">>

VersionVals ==
    { PStr(v123), PStr(<<"1", ".", "2">>), PStr(<<"v">> \o v123),
      PStr(v123 \o <<"-", "b", "e", "t", "a">>), PStr(v123 \o <<"\n">>),
      PStr(<<"1", "0", ".", "0", ".", "2", "1">>), PStr(<<>>),
      PInt(0), PInt(1), PFloat(12), PNone }

UpdatedVals ==
    { PStr(<<"2", "0", "2", "6", "-", "0", "1", "-", "1", "4">>),
      PStr(<<"J", "a", "n", " ", "1", "4">>) }

DomainVals == {PList, PStr(<<"x">>)}

\* no value: the key is not in the dict
Absent == Val("absent", 0, <<>>)

\* the dict with the keys K of PlainNames, and version / updated / domain when
\* they are not Absent
MkMap(K, v, u, d) ==
    Doc("map",
        [k \in K \cup (IF v = Absent THEN {} ELSE {"version"})
                 \cup (IF u = Absent THEN {} ELSE {"updated"})
                 \cup (IF d = Absent THEN {} ELSE {"domain"}) |->
            CASE k = "version" -> v
              [] k = "updated" -> u
              [] k = "domain" -> d
              [] OTHER -> PStr(<<"x">>)],
        {})

Opt(S) == S \cup {Absent}

MapDocs ==
    { MkMap(K, v[1], v[2], v[3]) :
        K \in SUBSET PlainNames,
        v \in {<<a, b, c>> : a \in Opt(VersionVals), b \in Opt(UpdatedVals), c \in Opt(DomainVals)} }

NonMapNames == {"version", "updated", "domain", "changelog"}

NonMapDocs ==
    {Doc("str", EmptyMap, N) : N \in SUBSET NonMapNames}
    \cup {Doc("list", EmptyMap, N) : N \in SUBSET NonMapNames}
    \cup {IntDoc, NoneDoc, YamlErrorDoc}

FullSsotMap(v) == MkMap(PlainNames, v, PStr(<<"2", "0", "2", "6", "-", "0", "1", "-", "1", "4">>), PList)

VersionAlphabet == {"1", ".", "v", "\n"}

\* lines, nl: the text of the file, as lines, and whether the last line ends in
\* a newline; yaml: what yaml.safe_load returns for the text between the markers
VInput(filename, exists, lines, nl, yaml) ==
    [filename |-> filename, exists |-> exists, lines |-> lines, nl |-> nl,
     yaml |-> yaml]

BlockLines == <<"---", "x", "---", "x">>

ssot_a == c_ssot \o <<"_", "a">> \o MD

\* every frontmatter value, under every kind of name
DocInputs ==
    {VInput(f, TRUE, BlockLines, TRUE, y) : f \in MainNames, y \in MapDocs \cup NonMapDocs}

\* every version string up to MaxVersionLen, in an otherwise complete ssot file
VersionInputs ==
    {VInput(ssot_a, TRUE, BlockLines, TRUE, FullSsotMap(PStr(s))) :
        s \in SeqsUpTo(VersionAlphabet, MaxVersionLen)}

\* every file layout up to MaxLines, under every kind of name
LayoutInputs ==
    {VInput(f, TRUE, l, nl, y) :
        f \in MainNames \cup OddNames, l \in SeqsUpTo({"---", "x"}, MaxLines), nl \in BOOLEAN,
        y \in {FullSsotMap(PStr(v123)), YamlErrorDoc, NoneDoc}}

\* the path names no file
MissingInputs == {VInput(f, FALSE, <<>>, FALSE, NoneDoc) : f \in MainNames}

VInputs == DocInputs \cup VersionInputs \cup LayoutInputs \cup MissingInputs

(***************************************************************************)
(* validate_metadata.py: the process                                       *)
(***************************************************************************)
VIdle ==
    /\ vpc = "idle"
    /\ vin = VInput(<<>>, FALSE, <<>>, FALSE, NoneDoc)
    /\ errors = <<>>
    /\ warnings = <<>>
    /\ metadata = NoneDoc
    /\ category = NoCategory
    /\ required = <<>>
    /\ report = NoReport
    /\ vresult = "none"
    /\ vraised = "none"
    /\ vexit = -1

\* main, lines 147-150: no file argument
main_usage ==
    /\ vpc = "idle"
    /\ vpc' = "exited"
    /\ vexit' = 1
    /\ UNCHANGED <<vin, errors, warnings, metadata, category, required, report,
                   vresult, vraised, gvars>>

\* main, lines 152-153: validate_metadata(sys.argv[1]) is called
main_call ==
    /\ vpc = "idle"
    /\ \E i \in VInputs : vin' = i
    /\ vpc' = "exists"
    /\ UNCHANGED <<errors, warnings, metadata, category, required, report,
                   vresult, vraised, vexit, gvars>>

\* lines 66-68
vm_not_found ==
    /\ vpc = "exists"
    /\ ~vin.exists
    /\ vresult' = "false"
    /\ vpc' = "returned"
    /\ UNCHANGED <<vin, errors, warnings, metadata, category, required, report,
                   vraised, vexit, gvars>>

\* lines 70-78
vm_naming ==
    /\ vpc = "exists"
    /\ vin.exists
    /\ errors' = validate_naming(vin.filename)
    /\ warnings' = <<>>
    /\ vpc' = "extract"
    /\ UNCHANGED <<vin, metadata, category, required, report, vresult, vraised,
                   vexit, gvars>>

\* lines 81-88
vm_extract ==
    /\ vpc = "extract"
    /\ metadata' = extract_frontmatter(vin)
    /\ IF metadata' = NoneDoc
       THEN /\ errors' = Append(errors, Err("frontmatter", <<>>))
            /\ report' = print_results(errors', warnings)
            /\ vresult' = "false"
            /\ vpc' = "returned"
       ELSE /\ vpc' = "category"
            /\ UNCHANGED <<errors, report, vresult>>
    /\ UNCHANGED <<vin, warnings, category, required, vraised, vexit, gvars>>

\* lines 91-95
vm_category ==
    /\ vpc = "category"
    /\ category' = resolve_category(vin.filename)
    /\ vpc' = "required"
    /\ UNCHANGED <<vin, errors, warnings, metadata, required, report, vresult,
                   vraised, vexit, gvars>>

\* lines 98-101
vm_required ==
    /\ vpc = "required"
    /\ required' = required_for(category)
    /\ IF InRaises(metadata)
       THEN vpc' = "raised" /\ vraised' = "TypeError" /\ UNCHANGED errors
       ELSE /\ errors' = IF missing_fields(required', metadata) # <<>>
                         THEN Append(errors, Err("missing", missing_fields(required', metadata)))
                         ELSE errors
            /\ vpc' = "version"
            /\ UNCHANGED vraised
    /\ UNCHANGED <<vin, warnings, metadata, category, report, vresult, vexit, gvars>>

\* lines 104-106
vm_version ==
    /\ vpc = "version"
    /\ IF In("version", metadata) /\ SubscriptRaises(metadata)
       THEN vpc' = "raised" /\ vraised' = "TypeError" /\ UNCHANGED errors
       ELSE /\ errors' = IF In("version", metadata) /\ ~validate_version(metadata.m["version"])
                         THEN Append(errors, Err("version", <<>>))
                         ELSE errors
            /\ vpc' = "updated"
            /\ UNCHANGED vraised
    /\ UNCHANGED <<vin, warnings, metadata, category, required, report, vresult,
                   vexit, gvars>>

\* lines 109-113
vm_updated ==
    /\ vpc = "updated"
    /\ IF In("updated", metadata) /\ SubscriptRaises(metadata)
       THEN vpc' = "raised" /\ vraised' = "TypeError" /\ UNCHANGED warnings
       ELSE /\ warnings' = IF In("updated", metadata)
                              /\ ~updated_match(PyStr(metadata.m["updated"]))
                           THEN Append(warnings, Err("updated", <<>>))
                           ELSE warnings
            /\ vpc' = "domain"
            /\ UNCHANGED vraised
    /\ UNCHANGED <<vin, errors, metadata, category, required, report, vresult,
                   vexit, gvars>>

\* lines 116-118
vm_domain ==
    /\ vpc = "domain"
    /\ IF In("domain", metadata) /\ SubscriptRaises(metadata)
       THEN vpc' = "raised" /\ vraised' = "TypeError" /\ UNCHANGED errors
       ELSE /\ errors' = IF In("domain", metadata) /\ metadata.m["domain"].t # "list"
                         THEN Append(errors, Err("domain", <<>>))
                         ELSE errors
            /\ vpc' = "changelog"
            /\ UNCHANGED vraised
    /\ UNCHANGED <<vin, warnings, metadata, category, required, report, vresult,
                   vexit, gvars>>

\* lines 121-122
vm_changelog ==
    /\ vpc = "changelog"
    /\ warnings' = IF category = c_ssot /\ ~In("changelog", metadata)
                   THEN Append(warnings, Err("changelog", <<>>))
                   ELSE warnings
    /\ vpc' = "results"
    /\ UNCHANGED <<vin, errors, metadata, category, required, report, vresult,
                   vraised, vexit, gvars>>

\* lines 124-125
vm_return ==
    /\ vpc = "results"
    /\ report' = print_results(errors, warnings)
    /\ vresult' = IF Len(errors) = 0 THEN "true" ELSE "false"
    /\ vpc' = "returned"
    /\ UNCHANGED <<vin, errors, warnings, metadata, category, required, vraised,
                   vexit, gvars>>

\* line 154: sys.exit(0 if success else 1)
main_exit ==
    /\ vpc = "returned"
    /\ vexit' = IF vresult = "true" THEN 0 ELSE 1
    /\ vpc' = "exited"
    /\ UNCHANGED <<vin, errors, warnings, metadata, category, required, report,
                   vresult, vraised, gvars>>

\* an exception nothing catches leaves main: the interpreter prints the
\* traceback and the process ends with status 1
main_uncaught ==
    /\ vpc = "raised"
    /\ vexit' = 1
    /\ vpc' = "crashed"
    /\ UNCHANGED <<vin, errors, warnings, metadata, category, required, report,
                   vresult, vraised, gvars>>

(***************************************************************************)
(* generate_template.py.  Text is a sequence of tokens: the characters     *)
(* = ' " are tokens of their own, any other token stands for a run of      *)
(* other characters.                                                       *)
(***************************************************************************)
L(text) == [ph |-> FALSE, s |-> text]
P(name) == [ph |-> TRUE, s |-> name]

TEMPLATES ==
    [ssot |->
        << L("---\ntitle: "), P("title"),
           L("\nversion: 0.1.0\nupdated: "), P("timestamp"),
           L("\nscope: "), P("scope"),
           L("\ncategory: "), P("category"),
           L("\nsubcategory: "), P("subcategory"),
           L("\ndomain: ["), P("domain"),
           L("]\napplicability: "), P("applicability"),
           L("\nchangelog:\n  - 0.1.0 ("), P("date"),
           L("): Initial creation.\n---\n\n## Purpose\n"), P("purpose"),
           L("\n\n## Overview\n"), P("overview"),
           L("\n\n## Key Components ... ## References\n") >>,
     pattern |->
        << L("---\ntitle: "), P("title"),
           L("\nversion: 0.1.0\nupdated: "), P("timestamp"),
           L("\nscope: "), P("scope"),
           L("\ncategory: pattern\nsubcategory: "), P("subcategory"),
           L("\ndomain: ["), P("domain"),
           L("]\napplicability: "), P("applicability"),
           L("\nchangelog:\n  - 0.1.0 ("), P("date"),
           L("): Initial creation.\n---\n\n## Purpose\n"), P("purpose"),
           L("\n\n## Pattern Description\n"), P("description"),
           L("\n\n## When to Apply ... ## Related Patterns\n") >>,
     reference |->
        << L("---\ntitle: "), P("title"),
           L("\nscope: "), P("scope"),
           L("\ncategory: reference\nsubcategory: "), P("subcategory"),
           L("\ndomain: ["), P("domain"),
           L("]\n---\n\n## Purpose\n"), P("purpose"),
           L("\n\n## Quick Reference ... ### Example 1: "), P("example_name"),
           L("\n...\n### Example 2: "), P("example_name"),
           L("\n...\n## Additional Resources\n") >>,
     plan |->
        << L("---\ntitle: "), P("title"),
           L("\nversion: 0.1.0\nupdated: "), P("timestamp"),
           L("\nscope: "), P("scope"),
           L("\ncategory: plan\nsubcategory: "), P("subcategory"),
           L("\nstatus: draft\nchangelog:\n  - 0.1.0 ("), P("date"),
           L("): Initial plan creation.\n---\n\n## Objective\n"), P("objective"),
           L("\n\n## Background\n"), P("background"),
           L("\n\n## Proposed Approach\n\n### Phase 1: "), P("phase_name"),
           L("\n...\n### Phase 2: "), P("phase_name"),
           L("\n...\n## Related Docs\n") >>]

\* datetime.now(timezone.utc).isoformat() at clock reading c
generate_timestamp(c) == <<"2026-01-14T00:00:0", DigitChar[c + 1], "+00:00">>

\* datetime.now().strftime("%Y-%m-%d") at clock reading c
generate_date(c) == <<"2026-01-1", DigitChar[c + 1]>>

\* the defaults of lines 224-240 without example_name
default_params_short(cat, c) ==
    (<<"title">> :> <<"New Memory">>)
    @@ (<<"timestamp">> :> generate_timestamp(c))
    @@ (<<"date">> :> generate_date(c))
    @@ (<<"scope">> :> <<"to-be-defined">>)
    @@ (<<"category">> :> <<cat>>)
    @@ (<<"subcategory">> :> <<"general">>)
    @@ (<<"domain">> :> <<"domain1, domain2">>)
    @@ (<<"applicability">> :> <<"specific area or ", "'", "all", "'">>)
    @@ (<<"purpose">> :> <<"Brief statement of purpose...">>)
    @@ (<<"overview">> :> <<"High-level overview...">>)
    @@ (<<"description">> :> <<"Detailed description...">>)
    @@ (<<"objective">> :> <<"What this plan aims to achieve...">>)
    @@ (<<"background">> :> <<"Context and motivation...">>)
    @@ (<<"phase_name">> :> <<"Phase Name">>)

\* the defaults of lines 224-240; keys are texts
default_params(cat, c) ==
    (<<"title">> :> <<"New Memory">>)
    @@ (<<"timestamp">> :> generate_timestamp(c))
    @@ (<<"date">> :> generate_date(c))
    @@ (<<"scope">> :> <<"to-be-defined">>)
    @@ (<<"category">> :> <<cat>>)
    @@ (<<"subcategory">> :> <<"general">>)
    @@ (<<"domain">> :> <<"domain1, domain2">>)
    @@ (<<"applicability">> :> <<"specific area or ", "'", "all", "'">>)
    @@ (<<"purpose">> :> <<"Brief statement of purpose...">>)
    @@ (<<"overview">> :> <<"High-level overview...">>)
    @@ (<<"description">> :> <<"Detailed description...">>)
    @@ (<<"objective">> :> <<"What this plan aims to achieve...">>)
    @@ (<<"background">> :> <<"Context and motivation...">>)
    @@ (<<"phase_name">> :> <<"Phase Name">>)
    @@ (<<"example_name">> :> <<"Example Name">>)

\* params.update(kwargs)
update(d, kwargs) ==
    [k \in DOMAIN d \cup DOMAIN kwargs |-> IF k \in DOMAIN kwargs THEN kwargs[k] ELSE d[k]]

\* the placeholder names a template refers to
placeholders(t) == {t[i].s : i \in {j \in 1..Len(t) : t[j].ph}}

\* str.format(**p) raises KeyError
format_raises(t, p) == \E n \in placeholders(t) : <<n>> \notin DOMAIN p

\* str.format(**p): every placeholder replaced by its value, text kept
RECURSIVE format(_, _)
format(t, p) ==
    IF t = <<>> THEN <<>>
    ELSE (IF t[1].ph THEN p[<<t[1].s>>] ELSE <<t[1].s>>) \o format(Tail(t), p)

Quotes == {"'", "\""}

\* value.strip("'\"")
strip(value, chars) == lstrip(rstrip(value, chars), chars)

\* index of the first "=" of arg, 0 when there is none
FirstEq(arg) ==
    IF \E i \in 1..Len(arg) : arg[i] = "="
    THEN CHOOSE i \in 1..Len(arg) : arg[i] = "=" /\ \A j \in 1..(i - 1) : arg[j] # "="
    ELSE 0

\* key, value = arg.split('=', 1)
split_key(arg) == SubSeq(arg, 1, FirstEq(arg) - 1)
split_value(arg) == SubSeq(arg, FirstEq(arg) + 1, Len(arg))

\* the loop of lines 264-268
RECURSIVE parse_args(_, _)
parse_args(args, acc) ==
    IF args = <<>> THEN acc
    ELSE parse_args(Tail(args),
            IF FirstEq(args[1]) # 0
            THEN update(acc, split_key(args[1]) :> strip(split_value(args[1]), Quotes))
            ELSE acc)

NoParams == [k \in {} |-> <<>>]

\* the filesystem
NoFile == [exists |-> FALSE, text |-> <<>>]
File(text) == [exists |-> TRUE, text |-> text]
Paths == {"a.md", "b.md"}

GInput(cat, out, args, clock) ==
    [category |-> cat, output_file |-> out, args |-> args, clock |-> clock]

GCategories == {"ssot", "pattern", "reference", "plan", "archive"}

GArgSets ==
    { <<>>,
      << <<"title", "=", "'", "My Title", "'">> >>,
      << <<"category", "=", "x">> >>,
      << <<"no_value_here">>, <<"title", "=", "A">>, <<"title", "=", "B">> >> }

GInputs ==
    {GInput(c, o, a, k) : c \in GCategories, o \in Paths, a \in GArgSets, k \in 1..MaxClock}

ValueAlphabet == {"'", "\"", "=", "a"}

\* one override, with every value up to MaxValueLen
StripInputs ==
    {GInput("ssot", "a.md", << <<"title", "=">> \o v >>, 1) :
        v \in SeqsUpTo(ValueAlphabet, MaxValueLen)}

GIdle ==
    /\ gpc = "idle"
    /\ gin = GInput("ssot", "a.md", <<>>, 1)
    /\ params = NoParams
    /\ content = <<>>
    /\ gout = "none"
    /\ graised = "none"
    /\ gexit = -1
    /\ wrote = FALSE

\* main, lines 247-258: fewer than two arguments
g_usage ==
    /\ gpc = "idle"
    /\ gout' = "usage"
    /\ gexit' = 1
    /\ gpc' = "exited"
    /\ UNCHANGED <<gin, params, content, fs, graised, wrote, vvars>>

\* main, lines 260-261
g_start(inputs) ==
    /\ gpc = "idle"
    /\ \E i \in inputs : gin' = i
    /\ gpc' = "parse"
    /\ UNCHANGED <<params, content, fs, gout, graised, gexit, wrote, vvars>>

\* main, lines 264-268
g_parse ==
    /\ gpc = "parse"
    /\ params' = parse_args(gin.args, NoParams)
    /\ gpc' = "generate"
    /\ UNCHANGED <<gin, content, fs, gout, graised, gexit, wrote, vvars>>

\* main, line 271, and generate_template, lines 216-243
g_generate ==
    /\ gpc = "generate"
    /\ IF <<"category">> \in DOMAIN params
       THEN \* generate_template() got multiple values for argument 'category'
            /\ graised' = "TypeError"
            /\ gpc' = "raised"
            /\ UNCHANGED <<content, gout, gexit>>
       ELSE IF gin.category \notin DOMAIN TEMPLATES
       THEN /\ gout' = "invalid_category"
            /\ gexit' = 1
            /\ gpc' = "exited"
            /\ UNCHANGED <<content, graised>>
       ELSE IF format_raises(TEMPLATES[gin.category],
                             update(default_params(gin.category, gin.clock), params))
       THEN /\ graised' = "KeyError"
            /\ gpc' = "raised"
            /\ UNCHANGED <<content, gout, gexit>>
       ELSE /\ content' = format(TEMPLATES[gin.category],
                                 update(default_params(gin.category, gin.clock), params))
            /\ gpc' = "check"
            /\ UNCHANGED <<gout, graised, gexit>>
    /\ UNCHANGED <<gin, params, fs, wrote, vvars>>

\* main, lines 274-278, with the sys.exit(1) left out: the run goes on to write
g_exists_overwrite ==
    /\ gpc = "check"
    /\ fs[gin.output_file].exists
    /\ fs' = [fs EXCEPT ![gin.output_file] = File(content)]
    /\ wrote' = TRUE
    /\ gout' = "created"
    /\ gpc' = "end"
    /\ UNCHANGED <<gin, params, content, graised, gexit, vvars>>

\* main, lines 274-278
g_exists ==
    /\ gpc = "check"
    /\ fs[gin.output_file].exists
    /\ gout' = "exists_error"
    /\ gexit' = 1
    /\ gpc' = "exited"
    /\ UNCHANGED <<gin, params, content, fs, graised, wrote, vvars>>

\* main, lines 280-282
g_write ==
    /\ gpc = "check"
    /\ ~fs[gin.output_file].exists
    /\ fs' = [fs EXCEPT ![gin.output_file] = File(content)]
    /\ wrote' = TRUE
    /\ gout' = "created"
    /\ gpc' = "end"
    /\ UNCHANGED <<gin, params, content, graised, gexit, vvars>>

\* main returns: the process ends with status 0
g_finish ==
    /\ gpc = "end"
    /\ gexit' = 0
    /\ gpc' = "exited"
    /\ UNCHANGED <<gin, params, content, fs, gout, graised, wrote, vvars>>

\* an exception nothing catches leaves main: traceback, status 1
g_uncaught ==
    /\ gpc = "raised"
    /\ gexit' = 1
    /\ gout' = "traceback"
    /\ gpc' = "crashed"
    /\ UNCHANGED <<gin, params, content, fs, graised, wrote, vvars>>

\* the tool is run again on the same filesystem
g_again ==
    /\ gpc \in {"exited", "crashed"}
    /\ gpc' = "idle"
    /\ gin' = GInput("ssot", "a.md", <<>>, 1)
    /\ params' = NoParams
    /\ content' = <<>>
    /\ gout' = "none"
    /\ graised' = "none"
    /\ gexit' = -1
    /\ wrote' = FALSE
    /\ UNCHANGED <<fs, vvars>>

(***************************************************************************)
(* Specifications.                                                         *)
(***************************************************************************)
EmptyFs == [p \in Paths |-> NoFile]

\* the validator, run once on any input
Init == VIdle /\ GIdle /\ fs = EmptyFs

Next ==
    \/ main_usage
    \/ main_call
    \/ vm_not_found
    \/ vm_naming
    \/ vm_extract
    \/ vm_category
    \/ vm_required
    \/ vm_version
    \/ vm_updated
    \/ vm_domain
    \/ vm_changelog
    \/ vm_return
    \/ main_exit
    \/ main_uncaught

Spec == Init /\ [][Next]_vars

\* the generator, run any number of times on a filesystem that may already
\* hold a.md
InitGen ==
    /\ VIdle
    /\ GIdle
    /\ fs \in {EmptyFs, [EmptyFs EXCEPT !["a.md"] = File(<<"old text">>)]}

g_start_any == g_start(GInputs)

NextGen ==
    \/ g_usage
    \/ g_start_any
    \/ g_parse
    \/ g_generate
    \/ g_exists
    \/ g_write
    \/ g_finish
    \/ g_uncaught
    \/ g_again

SpecGen == InitGen /\ [][NextGen]_vars

\* the generator, run once with one override of every value
g_start_strip == g_start(StripInputs)

NextArgs ==
    \/ g_start_strip
    \/ g_parse
    \/ g_generate
    \/ g_write
    \/ g_finish

SpecArgs == Init /\ [][NextArgs]_vars

(***************************************************************************)
(* Properties: the validator (checked under Spec).                         *)
(***************************************************************************)
HasKind(seq, k) == \E i \in 1..Len(seq) : seq[i].kind = k
CountKind(seq, k) == Cardinality({i \in 1..Len(seq) : seq[i].kind = k})

\* the run is over
VEnded == vpc \in {"exited", "crashed"}
\* extract_frontmatter returned a value and the run went on
Parsed == metadata # NoneDoc
HasKey(k) == metadata.kind = "map" /\ k \in DOMAIN metadata.m

s_ssot_ == <<"s", "s", "o", "t", "_">>

\* C1: for every existing input file, validate_metadata returns true and the
\* process exits with status 0 iff the accumulated error list is empty at the
\* end of the run; warnings never change either.
C1_Original ==
    (vin.exists /\ VEnded) =>
        /\ (vresult = "true") <=> (errors = <<>>)
        /\ (vexit = 0) <=> (errors = <<>>)

\* C1, the part the code satisfies: whenever validate_metadata returns, the
\* result and the exit status are decided by the error list alone.
C1_WhenReturned ==
    (vin.exists /\ vpc = "exited" /\ vresult # "none") =>
        /\ (vresult = "true") <=> (errors = <<>>)
        /\ (vexit = 0) <=> (errors = <<>>)

C2_Pre == vin.exists /\ (BlockEnd(vin.lines, vin.nl) = 0 \/ vin.yaml.kind = "error")

LaterKinds == {"missing", "version", "updated", "domain", "changelog"}
NamingKinds == {"naming_prefix", "naming_ext"}

\* C2 as claimed: with no leading --- block, or YAML that fails to parse, the
\* run reports the frontmatter error and fails, and the report holds no error
\* or warning of the naming, required-field, version, updated, domain or
\* changelog checks.
C2_Original ==
    (C2_Pre /\ vpc \in {"returned", "exited"}) =>
        /\ report.printed
        /\ vresult = "false"
        /\ HasKind(report.errors, "frontmatter")
        /\ \A i \in 1..Len(report.errors) :
              report.errors[i].kind \notin (NamingKinds \cup LaterKinds)
        /\ report.warnings = <<>>

\* C2 as amended: with no leading --- block, or YAML that fails to parse, the
\* run goes from extraction straight to its return, reports the frontmatter
\* error once and fails; the report holds no error or warning of the
\* required-field, version, updated, domain or changelog checks, and it holds
\* the errors of the naming check, which ran before the extraction.
C2_Amended ==
    (C2_Pre /\ vpc \notin {"idle", "exists", "extract"}) =>
        /\ vpc \in {"returned", "exited"}
        /\ report.printed
        /\ vresult = "false"
        /\ vpc = "exited" => vexit = 1
        /\ CountKind(report.errors, "frontmatter") = 1
        /\ \A i \in 1..Len(report.errors) : report.errors[i].kind \notin LaterKinds
        /\ report.warnings = <<>>
        /\ HasKind(report.errors, "naming_prefix")
              <=> (\A k \in 1..Len(CATEGORY_PREFIXES) :
                      ~startswith(vin.filename, CATEGORY_PREFIXES[k]))
        /\ HasKind(report.errors, "naming_ext") <=> ~endswith(vin.filename, MD)

C2_Witness ==
    /\ C2_Pre
    /\ vpc = "exited"
    /\ BlockEnd(vin.lines, vin.nl) # 0
    /\ vin.yaml.kind = "error"
    /\ HasKind(report.errors, "naming_prefix")
    /\ HasKind(report.errors, "frontmatter")

C3_Pre ==
    /\ metadata.kind = "map"
    /\ category \in DOMAIN REQUIRED_FIELDS
    /\ vpc \in {"version", "updated", "domain", "changelog", "results", "returned", "exited"}

C3_Expected == SelectSeq(REQUIRED_FIELDS[category], LAMBDA f : f \notin DOMAIN metadata.m)

\* C3: for a category with a required-field set and a frontmatter mapping, the
\* one "Missing required fields" error lists exactly the required fields that
\* are not keys, in the order of the required set; it is there iff some field
\* is missing, the run then fails, and the version, updated, domain and
\* changelog checks are evaluated all the same.
C3_MissingFields ==
    C3_Pre =>
        /\ CountKind(errors, "missing") = (IF C3_Expected = <<>> THEN 0 ELSE 1)
        /\ \A i \in 1..Len(errors) :
              errors[i].kind = "missing" => errors[i].fields = C3_Expected
        /\ (C3_Expected # <<>> /\ vpc \in {"returned", "exited"}) => vresult = "false"
        /\ (C3_Expected # <<>> /\ vpc = "exited") => vexit = 1
        /\ vpc \in {"returned", "exited"} =>
              /\ HasKind(errors, "version")
                    <=> (HasKey("version") /\ ~validate_version(metadata.m["version"]))
              /\ HasKind(warnings, "updated")
                    <=> (HasKey("updated") /\ ~updated_match(PyStr(metadata.m["updated"])))
              /\ HasKind(errors, "domain")
                    <=> (HasKey("domain") /\ metadata.m["domain"].t # "list")
              /\ HasKind(warnings, "changelog")
                    <=> (category = c_ssot /\ ~HasKey("changelog"))

C3_Witness ==
    /\ C3_Pre
    /\ vpc = "exited"
    /\ category = c_archive
    /\ Len(C3_Expected) >= 2
    /\ HasKind(errors, "missing")
    /\ HasKind(errors, "version")
    /\ HasKind(warnings, "updated")

\* digits "." digits "." digits, and nothing else
ExactSemver(s) ==
    \E i, j \in 1..Len(s) :
        /\ 1 < i /\ i + 1 < j /\ j < Len(s)
        /\ s[i] = "." /\ s[j] = "."
        /\ \A k \in 1..Len(s) : k \notin {i, j} => s[k] \in Digits

C4_Pre ==
    /\ HasKey("version")
    /\ vpc \in {"updated", "domain", "changelog", "results", "returned", "exited"}

\* C4: when the frontmatter has a version key, the "Invalid version format"
\* error is added iff the string form of the value is not exactly
\* integer.integer.integer, with no character of any kind before or after.
C4_Original ==
    C4_Pre => (HasKind(errors, "version") <=> ~ExactSemver(PyStr(metadata.m["version"])))

\* C4, what the code does: one newline after integer.integer.integer is let
\* through.
C4_UpToFinalNewline ==
    C4_Pre =>
        LET s == PyStr(metadata.m["version"])
        IN  HasKind(errors, "version")
              <=> ~(\/ ExactSemver(s)
                    \/ (s # <<>> /\ s[Len(s)] = "\n" /\ ExactSemver(SubSeq(s, 1, Len(s) - 1))))

\* C6: no exception crosses the CLI boundary of either tool: every run ends in
\* a printed message and a controlled exit.
C6_Original == vraised = "none" /\ graised = "none"

\* the category the prefix table gives a filename, prefix by prefix
C8_Table ==
    << <<s_ssot_, c_ssot>>,
       <<<<"p", "a", "t", "t", "e", "r", "n", "_">>, c_pattern>>,
       <<<<"p", "l", "a", "n", "_">>, c_plan>>,
       <<<<"r", "e", "f", "e", "r", "e", "n", "c", "e", "_">>, c_reference>>,
       <<<<"a", "r", "c", "h", "i", "v", "e", "_">>, c_archive>>,
       <<<<"t", "r", "o", "u", "b", "l", "e", "s", "h", "o", "o", "t", "_">>, c_troubleshoot>>,
       <<<<"c", "o", "m", "m", "i", "t", "_", "l", "o", "g">>, c_commit_log>> >>

RECURSIVE C8_Expected(_, _)
C8_Expected(filename, k) ==
    IF k > Len(C8_Table) THEN NoCategory
    ELSE IF startswith(filename, C8_Table[k][1]) THEN C8_Table[k][2]
    ELSE C8_Expected(filename, k + 1)

C8_SsotSet == <<"title", "version", "updated", "scope", "category", "subcategory", "domain">>

C10_Original ==
    (Parsed /\ VEnded) =>
        /\ HasKind(warnings, "changelog")
              <=> (startswith(vin.filename, s_ssot_) /\ ~HasKey("changelog"))
        /\ ~HasKind(errors, "changelog")

\* C10, the part the code satisfies: the same, for a frontmatter that is a
\* mapping.
C10_OnMappings ==
    (Parsed /\ VEnded /\ metadata.kind = "map") =>
        /\ HasKind(warnings, "changelog")
              <=> (startswith(vin.filename, s_ssot_) /\ ~HasKey("changelog"))
        /\ report.printed /\ (HasKind(report.warnings, "changelog") <=> HasKind(warnings, "changelog"))
        /\ ~HasKind(errors, "changelog")

(***************************************************************************)
(* Properties: the generator (checked under SpecGen and SpecArgs).         *)
(***************************************************************************)
\* C5: the generator never overwrites.  A run that finds its output path
\* already there ends with status 1 and an error message and writes nothing;
\* and no step of any run changes a file that exists, so the file keeps the
\* content of the run that created it.
C5_NeverOverwrites ==
    /\ []((gpc \in {"exited", "crashed"} /\ gout # "usage" /\ ~wrote
             /\ fs[gin.output_file].exists)
          => (gexit = 1 /\ gout \in {"exists_error", "invalid_category", "traceback"}))
    /\ [][\A p \in Paths : fs[p].exists => fs'[p] = fs[p]]_vars

\* a second run on a path that an earlier run created, with other content
C5_Witness ==
    /\ gpc = "exited"
    /\ gout = "exists_error"
    /\ gexit = 1
    /\ ~wrote
    /\ fs[gin.output_file].exists
    /\ fs[gin.output_file].text # <<"old text">>
    /\ fs[gin.output_file].text # content

\* the value the claim expects: one outer pair of quotes removed from a quoted
\* value, any other value verbatim
C7_OnePair(v) ==
    IF Len(v) >= 2 /\ v[1] \in Quotes /\ v[Len(v)] \in Quotes
    THEN SubSeq(v, 2, Len(v) - 1)
    ELSE v

\* C7: the value inserted for key=value (split at the first "=") is the value
\* without its one outer pair of quotes when it is quoted, and the value
\* verbatim otherwise.
C7_Original ==
    (gpc \in {"generate", "check", "end", "exited"}) =>
        \A i \in 1..Len(gin.args) :
            FirstEq(gin.args[i]) # 0 =>
                LET key == SubSeq(gin.args[i], 1, FirstEq(gin.args[i]) - 1)
                    value == SubSeq(gin.args[i], FirstEq(gin.args[i]) + 1, Len(gin.args[i]))
                IN  /\ key \in DOMAIN params
                    /\ params[key] = C7_OnePair(value)
                    /\ gpc # "generate" =>
                          SubSeq(content, 2, 1 + Len(C7_OnePair(value))) = C7_OnePair(value)

\* C7, what the code does: every quote character at either end of the value
\* is removed, whether or not the value is quoted on both sides.
C7_EveryOuterQuote ==
    (gpc \in {"generate", "check", "end", "exited"}) =>
        \A i \in 1..Len(gin.args) :
            FirstEq(gin.args[i]) # 0 =>
                LET key == SubSeq(gin.args[i], 1, FirstEq(gin.args[i]) - 1)
                    value == SubSeq(gin.args[i], FirstEq(gin.args[i]) + 1, Len(gin.args[i]))
                    r == params[key]
                IN  /\ r = <<>> \/ (r[1] \notin Quotes /\ r[Len(r)] \notin Quotes)
                    /\ \E a, b \in 0..Len(value) :
                          /\ a + b + Len(r) = Len(value)
                          /\ SubSeq(value, a + 1, a + Len(r)) = r
                          /\ \A k \in (1..a) \cup ((Len(value) - b + 1)..Len(value)) :
                                value[k] \in Quotes

C9_Names ==
    { "title", "timestamp", "date", "scope", "category", "subcategory", "domain",
      "applicability", "purpose", "overview", "description", "objective",
      "background", "phase_name", "example_name" }

\* C9: for every supported category, every placeholder of the template is a
\* key of the defaults, so a run with no overrides raises no KeyError and
\* renders a text in which no placeholder is left.
C9_DefaultsCoverTemplates ==
    /\ \A c \in {"ssot", "pattern", "reference", "plan"} :
          /\ c \in DOMAIN TEMPLATES
          /\ \A n \in placeholders(TEMPLATES[c]) :
                <<n>> \in DOMAIN default_params(c, gin.clock)
    /\ (gin.args = <<>> /\ gin.category \in {"ssot", "pattern", "reference", "plan"}
          /\ gpc \notin {"idle", "parse", "generate"} /\ gout # "usage") =>
          /\ graised = "none"
          /\ gpc # "raised"
          /\ Len(content) >= Len(TEMPLATES[gin.category])
          /\ \A i \in 1..Len(content) : content[i] \notin C9_Names

C9_Witness ==
    /\ gin.args = <<>>
    /\ gin.category = "reference"
    /\ gpc = "exited"
    /\ gexit = 0
    /\ gout = "created"
    /\ fs[gin.output_file].text = content
    /\ \E i \in 1..Len(content) : content[i] = "Example Name"

=============================================================================
